---- MODULE Spec2Model ----
(***************************************************************************)
(* Token issuance and verification of membrane (src/jwt_utils.py).         *)
(*                                                                         *)
(* A JWT string is modelled by what the jwt library reads from it: whether *)
(* it parses at all, the algorithm named in its header, the private key    *)
(* that produced its signature and the payload dictionary.  The library's  *)
(* verified decode is the structure, algorithm and signature check; the    *)
(* expiration field is an application claim named by configuration and is  *)
(* compared by the code itself.  The clock is the value the code computes  *)
(* from datetime.utcnow().timestamp(), counted in ticks of 1/TicksPerSec   *)
(* second so that the float comparison of the email path and the int()     *)
(* truncation of the client path are both visible.  The server public key  *)
(* file is taken to exist.                                                 *)
(***************************************************************************)
EXTENDS Integers, FiniteSets, Sequences, TLC

\* ---- bounds of the model ----
MaxSec == 2
TicksPerSec == 2
MaxTTL == 2

\* ---- configuration (environment variables read by the code) ----
AppIdField == "app_id"
RedirectUrlField == "redirect_url"
ExpirationField == "expiration"
Algorithm == "RS256"
MembraneFrontend == "https://membrane.front"
AuthenticateEndpoint == "https://membrane.back/authenticate"

\* ---- key material ----
\* A key pair is named by its owner; Priv(k) signs, Pub(k) verifies.
Priv(k) == <<"private", k>>
Pub(k) == <<"public", k>>
ServerKey == "server"
\* the app ids for which <app_id>_public_key.pem exists in the key directory
KeysDirectory == {"app1"}

\* ---- Python dictionaries ----
EmptyDict == [k \in {} |-> 0]
Put(d, k, v) == [x \in DOMAIN d \cup {k} |-> IF x = k THEN v ELSE d[x]]

\* ---- token strings ----
EmptyToken == [form |-> "empty", alg |-> "", sig |-> Priv(""), payload |-> EmptyDict]
GarbageToken == [form |-> "garbage", alg |-> "", sig |-> Priv(""), payload |-> EmptyDict]
Jwt(alg, key, payload) == [form |-> "jwt", alg |-> alg, sig |-> key, payload |-> payload]

\* `not x` of Python for a token string and for a claim value
Falsy(t) == t.form = "empty"

\* ---- outcomes of a call ----
NoLocation == [url |-> "", query |-> <<>>]
\* kind: the call returned or raised; exc: the class raised; payload, location,
\* token: what was returned (a dictionary, a redirect response, a token string);
\* verified: whether the call got as far as the library's verified decode.
Return(payload, location, verified) ==
    [kind |-> "return", exc |-> "", payload |-> payload, location |-> location,
     token |-> EmptyToken, verified |-> verified]
Raise(exc, verified) ==
    [kind |-> "raise", exc |-> exc, payload |-> EmptyDict, location |-> NoLocation,
     token |-> EmptyToken, verified |-> verified]
ReturnToken(t) == [Return(EmptyDict, NoLocation, FALSE) EXCEPT !.token = t]
NoOutcome ==
    [kind |-> "none", exc |-> "", payload |-> EmptyDict, location |-> NoLocation,
     token |-> EmptyToken, verified |-> FALSE]

\* the exception classes deriving from JWTError
JWTErrorFamily ==
    {"JWTError", "JWTAppIdMissingError", "JWTPublicKeyNotFoundError",
     "JWTPrivateKeyNotFoundError", "BlacklistedTokenError", "InvalidTokenError",
     "InvalidClientTokenError", "InvalidEmailTokenError", "JWTExpired"}

\* ---- the jwt library ----
\* jwt.encode(payload, private_key, algorithm)
encode(payload, private_key, algorithm) == Jwt(algorithm, private_key, payload)

\* jwt.decode(token, options={"verify_signature": False})
decode_unverified(t) ==
    IF t.form # "jwt" THEN Raise("DecodeError", FALSE)
    ELSE Return(t.payload, NoLocation, FALSE)

\* jwt.decode accepting the algorithm named in the token's own header
decode_trusting_header(t, public_key, algorithms) ==
    IF t.form # "jwt" THEN Raise("DecodeError", TRUE)
    ELSE IF Pub(t.sig[2]) # public_key THEN Raise("InvalidSignatureError", TRUE)
    ELSE Return(t.payload, NoLocation, TRUE)

\* jwt.decode(token, public_key, algorithms=[...])
decode(t, public_key, algorithms) ==
    IF t.form # "jwt" THEN Raise("DecodeError", TRUE)
    ELSE IF t.alg \notin algorithms THEN Raise("InvalidAlgorithmError", TRUE)
    ELSE IF Pub(t.sig[2]) # public_key THEN Raise("InvalidSignatureError", TRUE)
    ELSE Return(t.payload, NoLocation, TRUE)

\* ---- clock ----
\* datetime.utcnow().timestamp() is clock / TicksPerSec; int() truncates it
IntTimestamp(clock) == clock \div TicksPerSec
MaxClock == MaxSec * TicksPerSec

\* ---- variants used to test the properties ----
\* decode_client_jwt_token going on to the verified decode without looking for
\* the key file first
decode_client_without_key_check(jwt_token, keys_directory, clock) ==
    IF Falsy(jwt_token) THEN Raise("JWTError", FALSE)
    ELSE LET unverified == decode_unverified(jwt_token) IN
      IF unverified.kind = "raise" THEN Raise("JWTError", FALSE)
      ELSE IF AppIdField \notin DOMAIN unverified.payload
        THEN Raise("JWTAppIdMissingError", FALSE)
      ELSE LET app_id == unverified.payload[AppIdField]
               decoded == decode(jwt_token, Pub(app_id), {Algorithm}) IN
          IF decoded.kind = "raise" THEN Raise("JWTError", TRUE)
          ELSE IF RedirectUrlField \notin DOMAIN decoded.payload
            THEN Raise("KeyError", TRUE)
          ELSE IF decoded.payload[RedirectUrlField] = ""
            THEN Raise("JWTError", TRUE)
          ELSE IF ExpirationField \notin DOMAIN decoded.payload
            THEN Raise("KeyError", TRUE)
          ELSE IF IntTimestamp(clock) > decoded.payload[ExpirationField]
            THEN Raise("JWTExpired", TRUE)
          ELSE Return(decoded.payload, NoLocation, TRUE)

\* ---- decode_client_jwt_token ----
decode_client_jwt_token(jwt_token, keys_directory, clock) ==
    IF Falsy(jwt_token) THEN Raise("JWTError", FALSE)
    ELSE LET unverified == decode_unverified(jwt_token) IN
      IF unverified.kind = "raise" THEN Raise("JWTError", FALSE)
      ELSE IF AppIdField \notin DOMAIN unverified.payload
        THEN Raise("JWTAppIdMissingError", FALSE)
      ELSE LET app_id == unverified.payload[AppIdField] IN
        IF app_id \notin keys_directory
          THEN Raise("JWTPublicKeyNotFoundError", FALSE)
        ELSE LET decoded == decode(jwt_token, Pub(app_id), {Algorithm}) IN
          IF decoded.kind = "raise" THEN Raise("JWTError", TRUE)
          ELSE IF RedirectUrlField \notin DOMAIN decoded.payload
            THEN Raise("KeyError", TRUE)
          ELSE IF decoded.payload[RedirectUrlField] = ""
            THEN Raise("JWTError", TRUE)
          ELSE IF ExpirationField \notin DOMAIN decoded.payload
            THEN Raise("KeyError", TRUE)
          ELSE IF IntTimestamp(clock) > decoded.payload[ExpirationField]
            THEN Raise("JWTExpired", TRUE)
          ELSE Return(decoded.payload, NoLocation, TRUE)

\* login_redirect_with_client_jwt with `except JWTError` in place of
\* `except Exception`
login_redirect_catching_jwt_errors(clientapp_token, keys_directory, membrane_frontend, clock) ==
    LET d == decode_client_jwt_token(clientapp_token, keys_directory, clock) IN
    IF d.kind = "raise"
      THEN IF d.exc \in JWTErrorFamily THEN Raise("InvalidClientTokenError", d.verified)
           ELSE d
    ELSE Return(EmptyDict, [url |-> membrane_frontend, query |-> <<clientapp_token>>],
                d.verified)

\* ---- login_redirect_with_client_jwt ----
login_redirect_with_client_jwt(clientapp_token, keys_directory, membrane_frontend, clock) ==
    LET d == decode_client_jwt_token(clientapp_token, keys_directory, clock) IN
    IF d.kind = "raise" THEN Raise("InvalidClientTokenError", d.verified)
    ELSE Return(EmptyDict, [url |-> membrane_frontend, query |-> <<clientapp_token>>],
                d.verified)

\* decode_email_verification_token without the expiration check of lines 212-216
decode_email_without_expiry(jwt_token, server_public_key, token_blacklist, clock) ==
    IF Falsy(jwt_token) THEN Raise("JWTError", FALSE)
    ELSE IF jwt_token \in token_blacklist THEN Raise("BlacklistedTokenError", FALSE)
    ELSE LET decoded == decode(jwt_token, server_public_key, {Algorithm}) IN
      IF decoded.kind = "raise" THEN Raise("InvalidTokenError", TRUE)
      ELSE IF RedirectUrlField \notin DOMAIN decoded.payload
        THEN Raise("JWTError", TRUE)
      ELSE IF ExpirationField \notin DOMAIN decoded.payload
        THEN Raise("KeyError", TRUE)
      ELSE Return(decoded.payload, NoLocation, TRUE)

\* decode_email_verification_token without the membership test of lines 194-196
decode_email_without_blacklist_check(jwt_token, server_public_key, token_blacklist, clock) ==
    IF Falsy(jwt_token) THEN Raise("JWTError", FALSE)
    ELSE LET decoded == decode(jwt_token, server_public_key, {Algorithm}) IN
      IF decoded.kind = "raise" THEN Raise("InvalidTokenError", TRUE)
      ELSE IF RedirectUrlField \notin DOMAIN decoded.payload
        THEN Raise("JWTError", TRUE)
      ELSE IF ExpirationField \notin DOMAIN decoded.payload
        THEN Raise("KeyError", TRUE)
      ELSE IF clock > decoded.payload[ExpirationField] * TicksPerSec
        THEN Raise("JWTExpired", TRUE)
      ELSE Return(decoded.payload, NoLocation, TRUE)

\* ---- decode_email_verification_token ----
decode_email_verification_token(jwt_token, server_public_key, token_blacklist, clock) ==
    IF Falsy(jwt_token) THEN Raise("JWTError", FALSE)
    ELSE IF jwt_token \in token_blacklist THEN Raise("BlacklistedTokenError", FALSE)
    ELSE LET decoded == decode(jwt_token, server_public_key, {Algorithm}) IN
      IF decoded.kind = "raise" THEN Raise("InvalidTokenError", TRUE)
      ELSE IF RedirectUrlField \notin DOMAIN decoded.payload
        THEN Raise("JWTError", TRUE)
      ELSE IF ExpirationField \notin DOMAIN decoded.payload
        THEN Raise("KeyError", TRUE)
      ELSE IF clock > decoded.payload[ExpirationField] * TicksPerSec
        THEN Raise("JWTExpired", TRUE)
      ELSE Return(decoded.payload, NoLocation, TRUE)

\* lines 159-167 without the add of line 160
consume_without_add(email_token, decoded_email_token, token_blacklist) ==
    [out |-> Return(EmptyDict,
                    [url |-> decoded_email_token[RedirectUrlField],
                     query |-> <<email_token>>], TRUE),
     blacklist |-> token_blacklist]

\* lines 159-167 with the membership test repeated together with the add
consume_rechecking(email_token, decoded_email_token, token_blacklist) ==
    IF email_token \in token_blacklist
      THEN [out |-> Raise("BlacklistedTokenError", TRUE), blacklist |-> token_blacklist]
    ELSE [out |-> Return(EmptyDict,
                         [url |-> decoded_email_token[RedirectUrlField],
                          query |-> <<email_token>>], TRUE),
          blacklist |-> token_blacklist \cup {email_token}]

\* lines 159-167 assigning a new set holding the token in place of adding to it
consume_replacing(email_token, decoded_email_token, token_blacklist) ==
    [out |-> Return(EmptyDict,
                    [url |-> decoded_email_token[RedirectUrlField],
                     query |-> <<email_token>>], TRUE),
     blacklist |-> {email_token}]

\* ---- process_email_verification_token ----
\* lines 159-167: record the token as spent, then build the redirect
consume(email_token, decoded_email_token, token_blacklist) ==
    [out |-> Return(EmptyDict,
                    [url |-> decoded_email_token[RedirectUrlField],
                     query |-> <<email_token>>], TRUE),
     blacklist |-> token_blacklist \cup {email_token}]

\* process_email_verification_token recording the token before it is decoded
process_adding_first(email_token, server_public_key, token_blacklist, clock) ==
    LET d == decode_email_verification_token(email_token, server_public_key,
                                             token_blacklist, clock) IN
    IF d.kind = "raise" THEN [out |-> d, blacklist |-> token_blacklist \cup {email_token}]
    ELSE consume(email_token, d.payload, token_blacklist)

process_email_verification_token(email_token, server_public_key, token_blacklist, clock) ==
    LET d == decode_email_verification_token(email_token, server_public_key,
                                             token_blacklist, clock) IN
    IF d.kind = "raise" THEN [out |-> d, blacklist |-> token_blacklist]
    ELSE consume(email_token, d.payload, token_blacklist)

\* redirect_to_client_app_using_verification_token passing the caller's
\* blacklist to the second decode in place of the empty collection
fallback_with_blacklist(verification_token, server_public_key, token_blacklist, clock) ==
    LET p == process_email_verification_token(verification_token, server_public_key,
                                              token_blacklist, clock) IN
    IF p.out.kind = "return" THEN p
    ELSE IF p.out.exc = "InvalidTokenError" THEN p
    ELSE IF p.out.exc # "BlacklistedTokenError" THEN p
    ELSE LET d == decode_email_verification_token(verification_token, server_public_key,
                                                  token_blacklist, clock) IN
      IF d.kind = "return"
        THEN [out |-> Return(EmptyDict,
                             [url |-> d.payload[RedirectUrlField], query |-> <<>>],
                             TRUE),
              blacklist |-> p.blacklist]
      ELSE IF d.exc \in {"InvalidTokenError", "BlacklistedTokenError"}
        THEN [out |-> Raise("InvalidEmailTokenError", d.verified),
              blacklist |-> p.blacklist]
      ELSE [out |-> d, blacklist |-> p.blacklist]

\* redirect_to_client_app_using_verification_token taking the redirect URL of a
\* blacklisted token from an unverified decode
fallback_without_verification(verification_token, server_public_key, token_blacklist, clock) ==
    LET p == process_email_verification_token(verification_token, server_public_key,
                                              token_blacklist, clock) IN
    IF p.out.kind = "return" THEN p
    ELSE IF p.out.exc = "InvalidTokenError" THEN p
    ELSE IF p.out.exc # "BlacklistedTokenError" THEN p
    ELSE LET d == decode_unverified(verification_token) IN
      IF d.kind = "return" /\ RedirectUrlField \in DOMAIN d.payload
        THEN [out |-> Return(EmptyDict,
                             [url |-> d.payload[RedirectUrlField], query |-> <<>>],
                             FALSE),
              blacklist |-> p.blacklist]
      ELSE [out |-> Raise("InvalidEmailTokenError", FALSE), blacklist |-> p.blacklist]

\* ---- redirect_to_client_app_using_verification_token ----
redirect_to_client_app_using_verification_token(verification_token, server_public_key, token_blacklist, clock) ==
    LET p == process_email_verification_token(verification_token, server_public_key,
                                              token_blacklist, clock) IN
    IF p.out.kind = "return" THEN p
    ELSE IF p.out.exc = "InvalidTokenError" THEN p
    ELSE IF p.out.exc # "BlacklistedTokenError" THEN p
    ELSE LET d == decode_email_verification_token(verification_token,
                                                  server_public_key, {}, clock) IN
      IF d.kind = "return"
        THEN [out |-> Return(EmptyDict,
                             [url |-> d.payload[RedirectUrlField], query |-> <<>>],
                             TRUE),
              blacklist |-> p.blacklist]
      ELSE IF d.exc \in {"InvalidTokenError", "BlacklistedTokenError"}
        THEN [out |-> Raise("InvalidEmailTokenError", d.verified),
              blacklist |-> p.blacklist]
      ELSE [out |-> d, blacklist |-> p.blacklist]

\* ---- encode_email_verification_token ----
encode_email_verification_token(payload, private_key_exists) ==
    IF ~private_key_exists THEN Raise("JWTPrivateKeyNotFoundError", FALSE)
    ELSE ReturnToken(encode(payload, Priv(ServerKey), Algorithm))

\* ---- generate_email_verification_token ----
\* lines 237-241: the dictionary literal of the payload
email_payload(email, redirect_url, expiration_timestamp) ==
    Put(Put(Put(EmptyDict, "sub", email), RedirectUrlField, redirect_url),
        ExpirationField, expiration_timestamp)

\* generate_email_verification_token stamping the issue time as the expiration
generate_without_ttl(email, redirect_url, expiration_seconds, private_key_exists, clock) ==
    LET expiration_timestamp == IntTimestamp(clock)
        payload == email_payload(email, redirect_url, expiration_timestamp)
        e == encode_email_verification_token(payload, private_key_exists)
    IN IF e.kind = "raise" THEN e
       ELSE [ReturnToken(e.token) EXCEPT
               !.location = [url |-> AuthenticateEndpoint, query |-> <<e.token>>]]

generate_email_verification_token(email, redirect_url, expiration_seconds, private_key_exists, clock) ==
    LET expiration_timestamp == IntTimestamp(clock + expiration_seconds * TicksPerSec)
        payload == email_payload(email, redirect_url, expiration_timestamp)
        e == encode_email_verification_token(payload, private_key_exists)
    IN IF e.kind = "raise" THEN e
       ELSE [ReturnToken(e.token) EXCEPT
               !.location = [url |-> AuthenticateEndpoint, query |-> <<e.token>>]]

\* ---- inputs ----
Emails == {"user@example.com", "other@example.com"}
RedirectUrls == {"https://app.example/done", "https://app.example/other"}
TTLs == 1..MaxTTL
Email1 == "user@example.com"
Url1 == "https://app.example/done"

\* payloads presented to the email endpoints: well formed with every expiration
\* of the clock's range, without the redirect field, without the expiration field
EmailPayloadInputs ==
    {email_payload(Email1, Url1, x) : x \in 0..MaxSec}
    \cup {Put(Put(EmptyDict, "sub", Email1), ExpirationField, MaxSec),
          Put(Put(EmptyDict, "sub", Email1), RedirectUrlField, Url1)}

\* signed by the server key or by another key; for one payload also with another
\* algorithm in the header
EmailTokenInputs ==
    {EmptyToken, GarbageToken}
    \cup {Jwt(Algorithm, Priv(k), p) : k \in {ServerKey, "mallory"}, p \in EmailPayloadInputs}
    \cup {Jwt("HS256", Priv(k), email_payload(Email1, Url1, MaxSec)) :
             k \in {ServerKey, "mallory"}}

\* payloads of client tokens: {app_id, redirect_url, expiration}
client_payload(app_id, redirect_url, expiration) ==
    Put(Put(Put(EmptyDict, AppIdField, app_id), RedirectUrlField, redirect_url),
        ExpirationField, expiration)

ClientPayloadInputs ==
    {client_payload("app1", Url1, x) : x \in 0..MaxSec}
    \cup {client_payload("app2", Url1, MaxSec),
          client_payload("app1", "", MaxSec),
          Put(Put(EmptyDict, RedirectUrlField, Url1), ExpirationField, MaxSec),
          Put(Put(EmptyDict, AppIdField, "app1"), ExpirationField, MaxSec),
          Put(Put(EmptyDict, AppIdField, "app1"), RedirectUrlField, Url1)}

ClientTokenInputs ==
    {EmptyToken, GarbageToken}
    \cup {Jwt(Algorithm, Priv(k), p) : k \in {"app1", "mallory"}, p \in ClientPayloadInputs}
    \cup {Jwt("HS256", Priv(k), client_payload("app1", Url1, MaxSec)) :
             k \in {"app1", "mallory"}}

\* the two request handlers that may overlap
Procs == {"r1", "r2"}
\* tokens submitted by overlapping requests
ConcTokenInputs ==
    {EmptyToken, Jwt(Algorithm, Priv("mallory"), email_payload(Email1, Url1, MaxSec))}
    \cup {Jwt(Algorithm, Priv(ServerKey), email_payload(Email1, Url1, x)) : x \in 0..MaxSec}

\* ---- state ----
VARIABLES
    token_blacklist,     \* the set passed as token_blacklist to every email call
    clock,               \* current time in ticks
    ret,                 \* the last completed call: its arguments and outcome
    consumed,            \* history: tokens for which verify_and_consume succeeded
    calls,               \* the overlapping requests: position, token, outcome
    send                 \* the running send_email call: position, locals, outcome

vars == <<token_blacklist, clock, ret, consumed, calls, send>>

NoInput == [email |-> "", redirect_url |-> "", ttl |-> 0]
\* op: the function called; token, input: its arguments; out: its outcome;
\* inbl: was the token in the blacklist when called; used: had verify_and_consume
\* succeeded for it before (for a client call: did the same call, made just
\* before, return for this token); clock: the time of the call
Call(op, token, input, out, inbl, used, c) ==
    [op |-> op, token |-> token, input |-> input, out |-> out, inbl |-> inbl,
     used |-> used, clock |-> c]

NoCall(c) == Call("none", EmptyToken, NoInput, NoOutcome, FALSE, FALSE, c)

IdleCall == [pc |-> "idle", token |-> EmptyToken, out |-> NoOutcome, raced |-> FALSE]

\* send_email before it is called: no message, no poller, no outcome
NoSendOutcome == [kind |-> "none", exc |-> "", status |-> "", operation_id |-> ""]
IdleSend == [pc |-> "idle", html |-> "", time_elapsed |-> 0, waits |-> 0, out |-> NoSendOutcome]

Init ==
    /\ token_blacklist = {}
    /\ clock = 0
    /\ ret = NoCall(0)
    /\ consumed = {}
    /\ calls = [p \in Procs |-> IdleCall]
    /\ send = IdleSend

\* time passes; the response of the last call has been delivered
Tick ==
    /\ clock < MaxClock
    /\ clock' = clock + 1
    /\ ret' = NoCall(clock + 1)
    /\ UNCHANGED <<send, token_blacklist, consumed, calls>>

\* decode_client_jwt_token treating client tokens as single-use: refusing a
\* blacklisted token and blacklisting the token it accepts
DecodeClientConsuming(t) ==
    LET d == IF t \in token_blacklist THEN Raise("BlacklistedTokenError", FALSE)
             ELSE decode_client_jwt_token(t, KeysDirectory, clock) IN
    /\ ret' = Call("decode_client_jwt_token", t, NoInput, d, t \in token_blacklist,
                   ret.op = "decode_client_jwt_token" /\ ret.token = t
                     /\ ret.out.kind = "return",
                   clock)
    /\ token_blacklist' = IF d.kind = "return" THEN token_blacklist \cup {t}
                          ELSE token_blacklist
    /\ UNCHANGED <<send, clock, consumed, calls>>

\* decode_client_jwt_token(t, keys_directory)
DecodeClient(t) ==
    /\ ret' = Call("decode_client_jwt_token", t, NoInput,
                   decode_client_jwt_token(t, KeysDirectory, clock),
                   t \in token_blacklist,
                   ret.op = "decode_client_jwt_token" /\ ret.token = t
                     /\ ret.out.kind = "return",
                   clock)
    /\ UNCHANGED <<send, token_blacklist, clock, consumed, calls>>

\* login_redirect_with_client_jwt(t, keys_directory, membrane_frontend)
LoginRedirect(t) ==
    /\ ret' = Call("login_redirect_with_client_jwt", t, NoInput,
                   login_redirect_with_client_jwt(t, KeysDirectory, MembraneFrontend, clock),
                   t \in token_blacklist,
                   ret.op = "login_redirect_with_client_jwt" /\ ret.token = t
                     /\ ret.out.kind = "return",
                   clock)
    /\ UNCHANGED <<send, token_blacklist, clock, consumed, calls>>

\* process_email_verification_token(t, server_public_key, token_blacklist)
VerifyAndConsume(t) ==
    LET r == process_email_verification_token(t, Pub(ServerKey), token_blacklist, clock) IN
    /\ ret' = Call("process_email_verification_token", t, NoInput, r.out,
                   t \in token_blacklist, t \in consumed, clock)
    /\ token_blacklist' = r.blacklist
    /\ consumed' = IF r.out.kind = "return" THEN consumed \cup {t} ELSE consumed
    /\ UNCHANGED <<send, clock, calls>>

\* redirect_to_client_app_using_verification_token(t, server_public_key, token_blacklist)
VerifyWithFallback(t) ==
    LET r == redirect_to_client_app_using_verification_token(t, Pub(ServerKey),
                                                             token_blacklist, clock) IN
    /\ ret' = Call("redirect_to_client_app_using_verification_token", t, NoInput, r.out,
                   t \in token_blacklist, t \in consumed, clock)
    /\ token_blacklist' = r.blacklist
    /\ consumed' = IF r.out.kind = "return" /\ r.out.location.query # <<>>
                   THEN consumed \cup {t} ELSE consumed
    /\ UNCHANGED <<send, clock, calls>>

\* generate_email_verification_token(email, redirect_url, ttl, server_private_key);
\* private_key_exists: whether the private key file is there when called
Issue(email, redirect_url, ttl, private_key_exists) ==
    /\ ret' = Call("generate_email_verification_token", EmptyToken,
                   [email |-> email, redirect_url |-> redirect_url, ttl |-> ttl],
                   generate_email_verification_token(email, redirect_url, ttl,
                                                     private_key_exists, clock),
                   FALSE, FALSE, clock)
    /\ UNCHANGED <<send, token_blacklist, clock, consumed, calls>>

Next ==
    \/ Tick
    \/ \E t \in ClientTokenInputs : DecodeClient(t)
    \/ \E t \in ClientTokenInputs : LoginRedirect(t)
    \/ \E t \in EmailTokenInputs : VerifyAndConsume(t)
    \/ \E t \in EmailTokenInputs : VerifyWithFallback(t)
    \/ \E e \in Emails, u \in RedirectUrls, ttl \in TTLs, k \in BOOLEAN : Issue(e, u, ttl, k)

Spec == Init /\ [][Next]_vars

\* ---- overlapping calls of process_email_verification_token ----
\* A request p runs the function step by step: the membership check (lines
\* 191-196), the verified decode and the field checks (lines 198-221), then the
\* add and the redirect (lines 159-167).  Other requests and the clock may step
\* in between.
Submit(p, t) ==
    /\ calls[p].pc = "idle"
    /\ calls' = [calls EXCEPT ![p] = [IdleCall EXCEPT !.pc = "check", !.token = t]]
    /\ UNCHANGED <<send, token_blacklist, clock, ret, consumed>>

CheckBlacklist(p) ==
    LET d == decode_email_verification_token(calls[p].token, Pub(ServerKey),
                                             token_blacklist, clock) IN
    /\ calls[p].pc = "check"
    /\ calls' = [calls EXCEPT ![p] =
                   IF d.kind = "raise" /\ ~d.verified
                   THEN [@ EXCEPT !.pc = "done", !.out = d]
                   ELSE [@ EXCEPT !.pc = "decode"]]
    /\ UNCHANGED <<send, token_blacklist, clock, ret, consumed>>

VerifiedDecode(p) ==
    LET d == decode_email_verification_token(calls[p].token, Pub(ServerKey), {}, clock) IN
    /\ calls[p].pc = "decode"
    /\ calls' = [calls EXCEPT ![p] =
                   [@ EXCEPT !.pc = IF d.kind = "raise" THEN "done" ELSE "add",
                             !.out = d]]
    /\ UNCHANGED <<send, token_blacklist, clock, ret, consumed>>

AddAndRedirect(p) ==
    LET r == consume(calls[p].token, calls[p].out.payload, token_blacklist) IN
    /\ calls[p].pc = "add"
    /\ calls' = [calls EXCEPT ![p] =
                   [@ EXCEPT !.pc = "done", !.out = r.out,
                             !.raced = calls[p].token \in token_blacklist]]
    /\ token_blacklist' = r.blacklist
    /\ consumed' = IF r.out.kind = "return" THEN consumed \cup {calls[p].token}
                   ELSE consumed
    /\ UNCHANGED <<send, clock, ret>>

NextConc ==
    \/ Tick
    \/ \E p \in Procs, t \in ConcTokenInputs : Submit(p, t)
    \/ \E p \in Procs : CheckBlacklist(p)
    \/ \E p \in Procs : VerifiedDecode(p)
    \/ \E p \in Procs : AddAndRedirect(p)

SpecConc == Init /\ [][NextConc]_vars

\* ---- send_email ----
POLLER_WAIT_TIME == 10

\* the connection strings a caller passes: a well-formed one and a blank one
GoodConnection == "endpoint=https://acs.example/;accesskey=k"
ConnectionStrings == {GoodConnection, ""}
HtmlContents == {"", "<p>verify</p>"}
Bodies == {"verify"}
OperationIds == {"op1", "op2"}
\* what poller.result() gives: a result with a status, or an exception
PollerResults ==
    [kind : {"result"}, status : {"Succeeded"}, id : OperationIds]
        \cup [kind : {"result"}, status : {"Failed", "Canceled"}, id : {"op1"}]
        \cup [kind : {"raise"}, status : {""}, id : {""}]

SendReturn(operation_id) ==
    [kind |-> "return", exc |-> "", status |-> "Succeeded", operation_id |-> operation_id]
SendRaise(exc) == [kind |-> "raise", exc |-> exc, status |-> "", operation_id |-> ""]
\* the except clause of send_email: whatever was raised in the try block
\* leaves as RuntimeError
WrappedError == SendRaise("RuntimeError")

\* lines 32-47: the client is built from the connection string, outside the try
\* block; a blank or malformed string makes from_connection_string raise
\* ValueError.  Then the message and the two locals.
SendEmail(connection_string, body, html_content) ==
    /\ send.pc \in {"idle", "done"}
    /\ send' = IF connection_string # GoodConnection
               THEN [IdleSend EXCEPT !.pc = "done", !.out = SendRaise("ValueError")]
               ELSE [IdleSend EXCEPT
                       !.pc = "begin_send",
                       !.html = IF html_content # "" THEN html_content
                                ELSE "<html><h1>" \o body \o "</h1></html>"]
    /\ UNCHANGED <<token_blacklist, clock, ret, consumed, calls>>

\* line 50: begin_send gives a poller or raises
BeginSend(ok) ==
    /\ send.pc = "begin_send"
    /\ send' = IF ok THEN [send EXCEPT !.pc = "poll"]
               ELSE [send EXCEPT !.pc = "done", !.out = WrappedError]
    /\ UNCHANGED <<token_blacklist, clock, ret, consumed, calls>>

\* lines 52-58, poller.done() false: one wait, which may raise; the time
\* counted; the timeout
PollerWait(ok) ==
    LET elapsed == send.time_elapsed + POLLER_WAIT_TIME IN
    /\ send.pc = "poll"
    /\ send' = IF ~ok
               THEN [send EXCEPT !.pc = "done", !.waits = @ + 1, !.out = WrappedError]
               ELSE IF elapsed > 18 * POLLER_WAIT_TIME
               THEN [send EXCEPT !.pc = "done", !.waits = @ + 1,
                                 !.time_elapsed = elapsed, !.out = WrappedError]
               ELSE [send EXCEPT !.waits = @ + 1, !.time_elapsed = elapsed]
    /\ UNCHANGED <<token_blacklist, clock, ret, consumed, calls>>

\* lines 52, 60-65: poller.done() true, then the result
PollerResult(result) ==
    /\ send.pc = "poll"
    /\ send' = [send EXCEPT
                  !.pc = "done",
                  !.out = IF result.kind = "result" /\ result.status = "Succeeded"
                          THEN SendReturn(result.id)
                          ELSE WrappedError]
    /\ UNCHANGED <<token_blacklist, clock, ret, consumed, calls>>

NextSend ==
    \/ \E c \in ConnectionStrings, b \in Bodies, h \in HtmlContents : SendEmail(c, b, h)
    \/ \E ok \in BOOLEAN : BeginSend(ok)
    \/ \E ok \in BOOLEAN : PollerWait(ok)
    \/ \E r \in PollerResults : PollerResult(r)

SpecSend == Init /\ [][NextSend]_vars

\* ---- what the properties speak of ----
\* the token was signed with the private key of key pair k
SignedWith(t, k) == t.form = "jwt" /\ t.sig = Priv(k)
HasField(t, f) == t.form = "jwt" /\ f \in DOMAIN t.payload
IsVerifyAndConsume == ret.op = "process_email_verification_token"
IsVerifyWithFallback == ret.op = "redirect_to_client_app_using_verification_token"
IsClientVerify == ret.op = "decode_client_jwt_token"
IsLoginRedirect == ret.op = "login_redirect_with_client_jwt"
IsIssue == ret.op = "generate_email_verification_token"
Returned == ret.out.kind = "return"
Raised(exc) == ret.out.kind = "raise" /\ ret.out.exc = exc

\* C1: verify_and_consume returns a redirect for a token only if, at the time of
\* the call, the token is non-empty, is not in the blacklist, is signed with the
\* server key and the current time does not exceed its expiration; in every
\* other case it raises and returns no redirect.
VerifyAndConsumeAcceptsOnlyValid ==
    IsVerifyAndConsume =>
      LET accepted == /\ ~Falsy(ret.token)
                      /\ ~ret.inbl
                      /\ SignedWith(ret.token, ServerKey)
                      /\ HasField(ret.token, ExpirationField)
                      /\ ret.clock <= ret.token.payload[ExpirationField] * TicksPerSec
      IN /\ Returned => accepted
         /\ ~accepted => ret.out.kind = "raise" /\ ret.out.location = NoLocation
         /\ ret.out.kind \in {"return", "raise"}

VerifyAndConsumeAcceptedLate ==
    /\ IsVerifyAndConsume /\ Returned
    /\ ret.clock > 0
    /\ ret.out.location = [url |-> Url1, query |-> <<ret.token>>]

\* C2: once verify_and_consume has succeeded for a token, the token is in the
\* blacklist when the call returns and stays there, and every later
\* verify_and_consume of it raises BlacklistedTokenError, whatever else was
\* verified or issued in between.
ConsumedTokenStaysSpent ==
    /\ (IsVerifyAndConsume /\ Returned) => ret.token \in token_blacklist
    /\ consumed \subseteq token_blacklist
    /\ (IsVerifyAndConsume /\ ret.used) => Raised("BlacklistedTokenError")

SecondConsumeRefused ==
    /\ IsVerifyAndConsume /\ ret.used
    /\ Raised("BlacklistedTokenError")
    /\ Cardinality(consumed) >= 2

\* C3: a call of verify_and_consume that has passed the membership check and
\* the verified decode returns its redirect even when an overlapping call has
\* put the same token in the blacklist in the meantime; so two overlapping
\* calls for one token can both return a redirect.
RacedCallStillRedirects ==
    \A p \in Procs :
      (calls[p].pc = "done" /\ calls[p].raced) =>
        /\ calls[p].out.kind = "return"
        /\ calls[p].out.location.query = <<calls[p].token>>

BothOverlappingCallsRedirect ==
    \E p, q \in Procs :
      /\ p # q
      /\ calls[p].pc = "done" /\ calls[q].pc = "done"
      /\ calls[p].token = calls[q].token
      /\ calls[p].out.kind = "return" /\ calls[q].out.kind = "return"
      /\ calls[p].out.location.query = <<calls[p].token>>
      /\ calls[q].out.location.query = <<calls[q].token>>

\* C4: verify_with_fallback called with a blacklisted token that is signed with
\* the server key and unexpired returns a redirect to the token's redirect URL,
\* and leaves the token blacklisted, so that every such call does the same.
FallbackRedirectsBlacklisted ==
    (/\ IsVerifyWithFallback
     /\ ret.inbl
     /\ SignedWith(ret.token, ServerKey)
     /\ HasField(ret.token, ExpirationField)
     /\ ret.clock <= ret.token.payload[ExpirationField] * TicksPerSec)
    => /\ Returned
       /\ HasField(ret.token, RedirectUrlField)
       /\ ret.out.location = [url |-> ret.token.payload[RedirectUrlField], query |-> <<>>]
       /\ ret.token \in token_blacklist

FallbackRedirectedBlacklisted ==
    /\ IsVerifyWithFallback /\ ret.inbl /\ Returned
    /\ ret.clock > 0
    /\ ret.out.location = [url |-> Url1, query |-> <<>>]

\* C5 (as claimed): for every input token verify_with_fallback either returns a
\* redirect or raises InvalidEmailTokenError; no other error reaches the caller.
FallbackRaisesOnlyInvalidEmailToken ==
    IsVerifyWithFallback => (Returned \/ Raised("InvalidEmailTokenError"))

\* C6: login_redirect_with_client_jwt returns the redirect to
\* <membrane_frontend>?token=<client token> exactly when decode_client_jwt_token
\* returns for that token at that time, and raises InvalidClientTokenError, and
\* nothing else, whenever decode_client_jwt_token raises, whatever it raises.
LoginRedirectIffClientTokenVerifies ==
    IsLoginRedirect =>
      LET d == decode_client_jwt_token(ret.token, KeysDirectory, ret.clock) IN
      /\ d.kind = "return" =>
           /\ Returned
           /\ ret.out.location = [url |-> MembraneFrontend, query |-> <<ret.token>>]
      /\ d.kind = "raise" => Raised("InvalidClientTokenError")
      /\ Returned =>
           /\ HasField(ret.token, AppIdField)
           /\ ret.token.payload[AppIdField] \in KeysDirectory
           /\ SignedWith(ret.token, ret.token.payload[AppIdField])
           /\ ret.token.alg = Algorithm
           /\ HasField(ret.token, RedirectUrlField)
           /\ HasField(ret.token, ExpirationField)

LoginRefusedMissingField ==
    /\ IsLoginRedirect
    /\ Raised("InvalidClientTokenError")
    /\ SignedWith(ret.token, "app1")
    /\ ret.token.alg = Algorithm
    /\ ~HasField(ret.token, RedirectUrlField)

\* C7 (as claimed): every token whose expiration is earlier than the current
\* time (the timestamp in whole seconds) fails verification with JWTExpired,
\* whoever signed it.
ExpiredFailsWithTokenExpiredWhoeverSigned ==
    (/\ IsClientVerify \/ IsVerifyAndConsume
     /\ HasField(ret.token, ExpirationField)
     /\ ret.token.payload[ExpirationField] < IntTimestamp(ret.clock))
    => Raised("JWTExpired")

\* the checks that come before the expiration check pass: the token is signed,
\* under the configured algorithm, with the key resolved for its issuer, carries
\* a redirect field (non-empty for a client token) and, for an email token, is
\* not in the blacklist
ReachesExpirationCheck ==
    /\ ret.token.form = "jwt"
    /\ ret.token.alg = Algorithm
    /\ HasField(ret.token, RedirectUrlField)
    /\ HasField(ret.token, ExpirationField)
    /\ \/ /\ IsVerifyAndConsume
          /\ ~ret.inbl
          /\ SignedWith(ret.token, ServerKey)
       \/ /\ IsClientVerify
          /\ HasField(ret.token, AppIdField)
          /\ ret.token.payload[AppIdField] \in KeysDirectory
          /\ SignedWith(ret.token, ret.token.payload[AppIdField])
          /\ ret.token.payload[RedirectUrlField] # ""

\* C7 (amended): a token that passes every earlier check and whose expiration is
\* earlier than the current time in whole seconds fails with JWTExpired, in
\* client verification and in verify_and_consume.
ExpiredVerifiedTokenFailsWithTokenExpired ==
    (/\ ReachesExpirationCheck
     /\ ret.token.payload[ExpirationField] < IntTimestamp(ret.clock))
    => Raised("JWTExpired")

ExpiredVerifiedTokenRefused ==
    /\ IsVerifyAndConsume
    /\ ReachesExpirationCheck
    /\ ret.token.payload[ExpirationField] < IntTimestamp(ret.clock)
    /\ Raised("JWTExpired")

\* C8: in client verification a token whose app_id has no public key in the key
\* directory fails with JWTPublicKeyNotFoundError and the verified decode is
\* not reached for it.
UnknownAppIdStopsBeforeVerifiedDecode ==
    (/\ IsClientVerify \/ IsLoginRedirect
     /\ HasField(ret.token, AppIdField)
     /\ ret.token.payload[AppIdField] \notin KeysDirectory)
    => /\ ~ret.out.verified
       /\ IsClientVerify => Raised("JWTPublicKeyNotFoundError")
       /\ IsLoginRedirect => Raised("InvalidClientTokenError")

UnknownAppIdRefused ==
    /\ IsClientVerify
    /\ HasField(ret.token, AppIdField)
    /\ ret.token.payload[AppIdField] \notin KeysDirectory
    /\ SignedWith(ret.token, "mallory")
    /\ Raised("JWTPublicKeyNotFoundError")

\* C9 (as claimed): a token signed with a key other than the one resolved for
\* its claimed issuer (the app's key for a client token, the server key for an
\* email token) fails verification with InvalidTokenError.
WrongKeyFailsWithInvalidToken ==
    /\ (/\ IsClientVerify
        /\ HasField(ret.token, AppIdField)
        /\ ret.token.payload[AppIdField] \in KeysDirectory
        /\ ~SignedWith(ret.token, ret.token.payload[AppIdField]))
       => Raised("InvalidTokenError")
    /\ (/\ IsVerifyAndConsume
        /\ ret.token.form = "jwt"
        /\ ~SignedWith(ret.token, ServerKey))
       => Raised("InvalidTokenError")

\* C10: the token issued for an email, a redirect URL and a ttl, decoded with
\* the server public key at any time up to its expiration, yields exactly the
\* payload signed: subject = email, redirect field = redirect URL, expiration
\* field = issue time (in whole seconds) + ttl.
IssueRoundTrip ==
    (IsIssue /\ Returned) =>
      LET signed == [sub |-> ret.input.email,
                     redirect_url |-> ret.input.redirect_url,
                     expiration |-> IntTimestamp(ret.clock) + ret.input.ttl]
          lib == decode(ret.out.token, Pub(ServerKey), {Algorithm})
      IN /\ lib.kind = "return" /\ lib.payload = signed
         /\ ret.out.location.query = <<ret.out.token>>
         /\ \A c \in ret.clock..(MaxClock + MaxTTL * TicksPerSec) :
              c <= signed.expiration * TicksPerSec =>
                LET d == decode_email_verification_token(ret.out.token, Pub(ServerKey),
                                                         {}, c)
                IN d.kind = "return" /\ d.payload = signed

IssuedMidSecond ==
    /\ IsIssue /\ Returned
    /\ ret.clock % TicksPerSec # 0
    /\ ret.input.email # Email1
    /\ ret.input.ttl > 1

\* C11: the blacklist grows monotonically: after every operation (issue, client
\* verify, login redirect, verify_and_consume, verify_with_fallback, returning
\* or raising) it contains every token it contained before.
BlacklistGrowsMonotonically ==
    [][token_blacklist \subseteq token_blacklist']_vars

BlacklistHoldsTwoAfterFailure ==
    /\ Cardinality(token_blacklist) >= 2
    /\ IsVerifyWithFallback
    /\ ret.out.kind = "raise"

\* a client token that passes every check but the expiration check
ClientTokenValid(t) ==
    /\ t.form = "jwt"
    /\ t.alg = Algorithm
    /\ HasField(t, AppIdField)
    /\ t.payload[AppIdField] \in KeysDirectory
    /\ SignedWith(t, t.payload[AppIdField])
    /\ HasField(t, RedirectUrlField)
    /\ t.payload[RedirectUrlField] # ""
    /\ HasField(t, ExpirationField)

\* C12: client verification neither consults nor changes the blacklist: every
\* client call (decode_client_jwt_token, login_redirect_with_client_jwt) leaves
\* the blacklist as it was, and a valid client token is accepted at every call
\* made up to its expiration, however often it was accepted before.
ClientVerifyIgnoresBlacklist ==
    [][(ret'.op \in {"decode_client_jwt_token", "login_redirect_with_client_jwt"}) =>
         /\ token_blacklist' = token_blacklist
         /\ consumed' = consumed
         /\ (/\ ClientTokenValid(ret'.token)
             /\ clock' <= ret'.token.payload[ExpirationField] * TicksPerSec)
            => ret'.out.kind = "return"]_vars

ClientTokenAcceptedAgain ==
    /\ IsClientVerify /\ Returned
    /\ ret.used
    /\ ret.clock > 0
    /\ token_blacklist # {}

\* an email token in a terminal state: consumed (in the blacklist) or expired
Terminal(t) ==
    \/ t \in token_blacklist
    \/ /\ HasField(t, ExpirationField)
       /\ clock > t.payload[ExpirationField] * TicksPerSec

\* C13: no email token leaves a terminal state: time does not go back, a token
\* that is consumed or expired before a step is so after it, and
\* verify_and_consume called for a token that is consumed or expired raises.
TerminalStateIsFinal ==
    [][/\ clock' >= clock
       /\ \A t \in EmailTokenInputs : Terminal(t) => Terminal(t)'
       /\ (ret'.op = "process_email_verification_token" /\ Terminal(ret'.token))
            => ret'.out.kind = "raise"]_vars

ConsumedAndExpiredRefused ==
    /\ IsVerifyAndConsume
    /\ ret.inbl
    /\ ret.clock > ret.token.payload[ExpirationField] * TicksPerSec
    /\ ret.out.kind = "raise"

\* C14 (as claimed): decode_client_jwt_token fails only with errors of the
\* JWTError family, also for a validly signed token without the redirect field,
\* with an empty redirect field or without the expiration field.
ClientVerifyFailsOnlyWithJWTError ==
    (IsClientVerify /\ ret.out.kind = "raise") => ret.out.exc \in JWTErrorFamily

\* C15 (as claimed): expiry is the strict condition current time > expiration:
\* a token that passes every earlier check is accepted while the current time
\* is at most its expiration and rejected with JWTExpired as soon as the
\* current time is greater, in client verification and in verify_and_consume.
ExpiryIsStrictInBothPaths ==
    ((IsClientVerify \/ IsVerifyAndConsume) /\ ReachesExpirationCheck) =>
      IF ret.clock > ret.token.payload[ExpirationField] * TicksPerSec
      THEN Raised("JWTExpired")
      ELSE Returned

\* C16: the verified decode pins the configured algorithm: a token whose header
\* names another algorithm is rejected by client verification, login redirect,
\* verify_and_consume and verify_with_fallback, whatever key signed it.
OtherAlgorithmRejected ==
    (/\ IsClientVerify \/ IsLoginRedirect \/ IsVerifyAndConsume \/ IsVerifyWithFallback
     /\ ret.token.form = "jwt"
     /\ ret.token.alg # Algorithm)
    => /\ ret.out.kind = "raise"
       /\ (IsVerifyAndConsume \/ IsVerifyWithFallback) => Raised("InvalidTokenError")

OtherAlgorithmServerSignedRefused ==
    /\ IsVerifyAndConsume
    /\ ret.token.form = "jwt"
    /\ ret.token.alg # Algorithm
    /\ SignedWith(ret.token, ServerKey)
    /\ ret.clock <= ret.token.payload[ExpirationField] * TicksPerSec
    /\ Raised("InvalidTokenError")

\* C17: the fallback path of verify_with_fallback bypasses the blacklist check
\* only: verify_with_fallback returns a redirect only for a token signed with
\* the server key under the configured algorithm whose expiration has not
\* passed, and when it is called with a blacklisted token (the fallback path)
\* it leaves the caller's blacklist as it was.
FallbackBypassesOnlyBlacklist ==
    [][(ret'.op = "redirect_to_client_app_using_verification_token") =>
         /\ ret'.out.kind = "return" =>
              /\ SignedWith(ret'.token, ServerKey)
              /\ ret'.token.alg = Algorithm
              /\ HasField(ret'.token, ExpirationField)
              /\ clock' <= ret'.token.payload[ExpirationField] * TicksPerSec
         /\ ret'.token \in token_blacklist =>
              /\ token_blacklist' = token_blacklist
              /\ ret'.out.kind = "return" => ret'.out.location.query = <<>>
         /\ token_blacklist' \subseteq token_blacklist \cup {ret'.token}]_vars

FallbackRefusedExpiredBlacklisted ==
    /\ IsVerifyWithFallback
    /\ ret.inbl
    /\ ret.clock > ret.token.payload[ExpirationField] * TicksPerSec
    /\ Raised("JWTExpired")

\* an email token that passes the whole verification at time c
FullyVerified(t, c) ==
    /\ SignedWith(t, ServerKey)
    /\ t.alg = Algorithm
    /\ HasField(t, RedirectUrlField)
    /\ HasField(t, ExpirationField)
    /\ c <= t.payload[ExpirationField] * TicksPerSec

\* C18: a verify_and_consume that raises leaves the blacklist as it was, and
\* every token that enters the blacklist passes the whole verification (valid
\* signature, unexpired) at the moment it is added.
FailedConsumeLeavesBlacklist ==
    [][/\ (ret'.op = "process_email_verification_token" /\ ret'.out.kind = "raise")
            => token_blacklist' = token_blacklist
       /\ \A t \in token_blacklist' \ token_blacklist : FullyVerified(t, clock')]_vars

ExpiredRefusedBlacklistKept ==
    /\ IsVerifyAndConsume
    /\ Raised("JWTExpired")
    /\ token_blacklist # {}
    /\ ret.token \notin token_blacklist

\* C19: send_email ends either returning status "Succeeded" with the operation
\* id or raising RuntimeError, after at most 19 waits.
SendEndsSucceededOrRuntimeError ==
    send.pc = "done" =>
        /\ send.waits <= 19
        /\ \/ send.out.kind = "return" /\ send.out.status = "Succeeded"
           \/ send.out.kind = "raise" /\ send.out.exc = "RuntimeError"
====
